---- MODULE Spec2Model ----
(***************************************************************************)
(* Model of newmainXCDSC_final5_cor.c: the beacon frame builder, the BCH   *)
(* encoders, the precomputed DAC tables, main() and the 200 kHz Timer1     *)
(* interrupt handler that sequences preamble, data symbols and idle guard. *)
(***************************************************************************)
EXTENDS Integers, Sequences, FiniteSets, TLC

\* ------------------------------------------------------------------ bounds
\* Number of complete preamble+data cycles the tick handler is followed for.
MaxCycles == 2
\* Inputs of the BCH encoder are the bit patterns 0..MaxPattern at every shift.
MaxPattern == 15

\* --------------------------------------------------------------- constants
CARRIER_FREQ_HZ == 40000
SYMBOL_RATE_HZ == 400
SAMPLE_RATE_HZ == 200000
SAMPLES_PER_SYMBOL == SAMPLE_RATE_HZ \div SYMBOL_RATE_HZ
DAC_OFFSET == 2048
COS_1P1_Q15 == 14865
SIN_1P1_Q15 == 29197
PREAMBLE_DURATION_MS == 160
PREAMBLE_PHASE == 0
DATA_PHASE == 1
PREAMBLE_SAMPLES == (PREAMBLE_DURATION_MS * SAMPLE_RATE_HZ) \div 1000
IDLE_SYMBOLS == 2
SYNC_BITS == 15
FRAME_SYNC_BITS == 9
COUNTRY_BITS == 10
AIRCRAFT_BITS == 24
POSITION_BITS == 21
OFFSET_BITS == 20
BCH_POS_BITS == 10
BCH_ID_BITS == 12
MESSAGE_BITS == SYNC_BITS + FRAME_SYNC_BITS + COUNTRY_BITS + AIRCRAFT_BITS + POSITION_BITS + OFFSET_BITS + BCH_POS_BITS + BCH_ID_BITS
\* 0x3B3
BCH_POLY == 947
\* Payload literals of build_beacon_frame: 0x1AC, 0x2A5, 0x00A5F3C, 0x1A5F3, 0x0A5F3
frame_sync == 428
country_code == 677
aircraft_id == 679740
position == 108019
position_offset == 42483

cos_table == [k \in 0..4 |-> <<32767, 10126, -26510, -26510, 10126>>[k + 1]]
sin_table == [k \in 0..4 |-> <<0, 31163, 19260, -19260, -31163>>[k + 1]]

\* ------------------------------------------------------- integer helpers
Pow2(n) == 2 ^ n

\* x >> n on an unsigned value
Shr(x, n) == x \div Pow2(n)

\* (x >> n) & 1
BitAt(x, n) == Shr(x, n) % 2

\* x >> 18 on a signed 32-bit value (arithmetic shift: rounds toward minus infinity)
Asr18(x) == x \div Pow2(18)

\* (uint16_t) x
ToU16(x) == x % 65536

RECURSIVE Xor(_, _)
\* a ^ b on unsigned values
Xor(a, b) ==
    IF a = 0 THEN b
    ELSE IF b = 0 THEN a
    ELSE ((a + b) % 2) + 2 * Xor(a \div 2, b \div 2)

\* ------------------------------------------------------------ BCH encoders
\* the feedback test of the LFSR, if (msb ^ bit)
BchFeedback_or(msb, bit) == msb = 1 \/ bit = 1

BchFeedback(msb, bit) == msb # bit

\* one iteration of the loop of bch_encode_31_21 on the uint32_t register.
\* The register starts at 0 and is shifted 21 times, so it stays below 2^31
\* and reg << 1 never wraps at 32 bits.
BchStep(reg, bit) ==
    LET msb == BitAt(reg, 9)
        shifted == (reg * 2) + bit
    IN  IF BchFeedback(msb, bit) THEN Xor(shifted, BCH_POLY) ELSE shifted

RECURSIVE BchLoop(_, _, _)
BchLoop(reg, data, i) ==
    IF i < 0 THEN reg
    ELSE BchLoop(BchStep(reg, BitAt(data, i)), data, i - 1)

bch_encode_31_21(data) == BchLoop(0, data % Pow2(21), 20) % 1024

\* uint16_t bch_encode_12_12(uint16_t data) { return data; }
bch_encode_12_12_masked(data) == data % 4096

bch_encode_12_12(data) == data

\* ------------------------------------------------------ precomputed tables
\* (uint16_t)(DAC_OFFSET + (acc >> 18))
DacCode(acc) == ToU16(DAC_OFFSET + Asr18(acc))

precomputed_dac == [k \in 0..4 |-> DacCode(cos_table[k] * COS_1P1_Q15)]

precomputed_symbol_dac ==
    [s \in 0..1 |-> [k \in 0..4 |->
        IF s = 0
        THEN DacCode(cos_table[k] * COS_1P1_Q15 - sin_table[k] * SIN_1P1_Q15)
        ELSE DacCode(cos_table[k] * COS_1P1_Q15 + sin_table[k] * SIN_1P1_Q15)]]

\* ------------------------------------------------------------------- state
VARIABLES
    tx_phase, carrier_phase, preamble_count, idle_count, sample_count,
    symbol_index, beacon_frame, debug_dac_value,
    DAC1DATH, DAC1DATL, T1IE, TON,
    pc, bit_index, i, reg, position_parity, id_parity,
    nwrites, last_index, sel, ticks, phase_ticks, last_preamble_len, last_data_len, cycles,
    bch_pc, bchA, bchB, bchOut

isrVars == <<tx_phase, carrier_phase, preamble_count, idle_count, sample_count, symbol_index>>
dacVars == <<debug_dac_value, DAC1DATH, DAC1DATL>>
timerVars == <<T1IE, TON>>
buildVars == <<beacon_frame, bit_index, i, reg, position_parity, id_parity, nwrites, last_index>>
histVars == <<sel, ticks, phase_ticks, last_preamble_len, last_data_len, cycles>>
bchVars == <<bch_pc, bchA, bchB, bchOut>>
vars == <<isrVars, dacVars, timerVars, pc, buildVars, histVars, bchVars>>

\* the static initialisers of the globals, before main runs
InitProgram ==
    /\ tx_phase = PREAMBLE_PHASE
    /\ carrier_phase = 0
    /\ preamble_count = 0
    /\ idle_count = 0
    /\ sample_count = 0
    /\ symbol_index = 0
    /\ beacon_frame = [k \in 1..MESSAGE_BITS |-> 0]
    /\ debug_dac_value = 0
    /\ DAC1DATH = 0
    /\ DAC1DATL = 0
    /\ T1IE = 0
    /\ TON = 0
    /\ bit_index = 0
    /\ i = 0
    /\ reg = 0
    /\ position_parity = 0
    /\ id_parity = 0
    /\ nwrites = 0
    /\ last_index = -1
    /\ sel = <<"none", 0, 0>>
    /\ ticks = 0
    /\ phase_ticks = 0
    /\ last_preamble_len = 0
    /\ last_data_len = 0
    /\ cycles = 0

Init ==
    /\ InitProgram
    /\ pc = "wdt"
    /\ bch_pc = "off"
    /\ bchA = 0
    /\ bchB = 0
    /\ bchOut = <<0, 0, 0>>

\* ---------------------------------------------------------- frame builder
\* uint8_t beacon_frame[MESSAGE_BITS] is held as a sequence: element k of the
\* array is beacon_frame[k + 1].
FrameAt(k) == beacon_frame[k + 1]

\* beacon_frame[bit_index++] = b; the loop variable moves to nexti and the
\* loop is left for position nextpc with loop variable starti when done.
\* nwrites counts the stores and last_index is the index of the latest one.
StoreBit(b, nexti, done, nextpc, starti) ==
    /\ beacon_frame' = IF bit_index \in 0..(MESSAGE_BITS - 1)
                       THEN [beacon_frame EXCEPT ![bit_index + 1] = b % 256]
                       ELSE beacon_frame
    /\ nwrites' = nwrites + 1
    /\ last_index' = bit_index
    /\ bit_index' = bit_index + 1
    /\ IF done
       THEN pc' = nextpc /\ i' = starti
       ELSE pc' = pc /\ i' = nexti
    /\ UNCHANGED <<isrVars, dacVars, timerVars, histVars, bchVars>>

\* the value stored for loop index n: (v >> n) & 1
FieldBit_nomask(v, n) == Shr(v, n)

FieldBit(v, n) == BitAt(v, n)

\* the loop condition of the field loops after i--: i >= 0
FieldLoopGoesOn_gt(n) == n > 0

FieldLoopGoesOn(n) == n >= 0

\* MSB-first loop: for (int i = w - 1; i >= 0; i--) beacon_frame[bit_index++] = (v >> i) & 1;
StoreField(v, nextpc, starti) ==
    /\ StoreBit(FieldBit(v, i), i - 1, ~FieldLoopGoesOn(i - 1), nextpc, starti)
    /\ UNCHANGED <<reg, position_parity, id_parity>>

DisableWatchdog ==
    /\ pc = "wdt"
    /\ pc' = "sync"
    /\ bit_index' = 0
    /\ i' = 0
    /\ UNCHANGED <<isrVars, dacVars, timerVars, beacon_frame, reg, position_parity, id_parity, nwrites, last_index, histVars, bchVars>>

WriteSync ==
    /\ pc = "sync"
    /\ StoreBit(1, i + 1, ~(i + 1 < SYNC_BITS), "frame_sync", 8)
    /\ UNCHANGED <<reg, position_parity, id_parity>>

WriteFrameSync ==
    /\ pc = "frame_sync"
    /\ StoreField(frame_sync, "country", 9)

WriteCountry ==
    /\ pc = "country"
    /\ StoreField(country_code, "aircraft", 23)

WriteAircraft ==
    /\ pc = "aircraft"
    /\ StoreField(aircraft_id, "position", 20)

WritePosition ==
    /\ pc = "position"
    /\ StoreField(position, "offset", 19)

WriteOffset ==
    /\ pc = "offset"
    /\ StoreField(position_offset, "bch_pos_call", 0)

\* position_parity = bch_encode_31_21(position), run one loop iteration per step:
\* entry (reg = 0, data masked to 21 bits, i = 20), the loop, and the return of
\* reg & 0x3FF into position_parity.
CallBchPosition ==
    /\ pc = "bch_pos_call"
    /\ reg' = 0
    /\ pc' = "bch_loop"
    /\ i' = 20
    /\ UNCHANGED <<isrVars, dacVars, timerVars, beacon_frame, bit_index, position_parity, id_parity, nwrites, last_index, histVars, bchVars>>

BchIterate ==
    /\ pc = "bch_loop"
    /\ reg' = BchStep(reg, BitAt(position % Pow2(21), i))
    /\ i' = i - 1
    /\ pc' = IF i - 1 >= 0 THEN "bch_loop" ELSE "bch_return"
    /\ UNCHANGED <<isrVars, dacVars, timerVars, beacon_frame, bit_index, position_parity, id_parity, nwrites, last_index, histVars, bchVars>>

BchReturn ==
    /\ pc = "bch_return"
    /\ position_parity' = reg % 1024
    /\ pc' = "bch_pos"
    /\ i' = 9
    /\ UNCHANGED <<isrVars, dacVars, timerVars, beacon_frame, bit_index, reg, id_parity, nwrites, last_index, histVars, bchVars>>

WritePositionParity ==
    /\ pc = "bch_pos"
    /\ StoreField(position_parity, "bch_id_call", 0)

CallBchId ==
    /\ pc = "bch_id_call"
    /\ id_parity' = bch_encode_12_12(aircraft_id % 4096)
    /\ pc' = "bch_id"
    /\ i' = 11
    /\ UNCHANGED <<isrVars, dacVars, timerVars, beacon_frame, bit_index, reg, position_parity, nwrites, last_index, histVars, bchVars>>

WriteIdParity ==
    /\ pc = "bch_id"
    /\ StoreField(id_parity, "init_clock", 0)

build_beacon_frame ==
    \/ WriteSync
    \/ WriteFrameSync
    \/ WriteCountry
    \/ WriteAircraft
    \/ WritePosition
    \/ WriteOffset
    \/ CallBchPosition
    \/ BchIterate
    \/ BchReturn
    \/ WritePositionParity
    \/ CallBchId
    \/ WriteIdParity

\* ------------------------------------------------------------ peripherals
init_clock ==
    /\ pc = "init_clock"
    /\ pc' = "init_dac"
    /\ UNCHANGED <<isrVars, dacVars, timerVars, buildVars, histVars, bchVars>>

init_dac ==
    /\ pc = "init_dac"
    /\ DAC1DATH' = Shr(DAC_OFFSET, 8) % 16
    /\ DAC1DATL' = DAC_OFFSET % 256
    /\ pc' = "init_timer1"
    /\ UNCHANGED <<isrVars, debug_dac_value, timerVars, buildVars, histVars, bchVars>>

init_timer1 ==
    /\ pc = "init_timer1"
    /\ T1IE' = 1
    /\ TON' = 1
    /\ pc' = "enable_interrupts"
    /\ UNCHANGED <<isrVars, dacVars, buildVars, histVars, bchVars>>

EnableInterrupts ==
    /\ pc = "enable_interrupts"
    /\ pc' = "idle"
    /\ UNCHANGED <<isrVars, dacVars, timerVars, buildVars, histVars, bchVars>>

\* while(1) __builtin_nop();
IdleLoop ==
    /\ pc = "idle"
    /\ UNCHANGED vars

\* ------------------------------------------------------------ tick handler
\* carrier_phase = (carrier_phase < 4) ? carrier_phase + 1 : 0
CarrierStep_short(cp) == IF cp < 3 THEN cp + 1 ELSE 0

CarrierStep(cp) == IF cp < 4 THEN cp + 1 ELSE 0

\* ++preamble_count >= PREAMBLE_SAMPLES
PreambleDone_gt(n) == n > PREAMBLE_SAMPLES

PreambleDone(n) == n >= PREAMBLE_SAMPLES

\* ++sample_count >= SAMPLES_PER_SYMBOL
SymbolDone_gt(n) == n > SAMPLES_PER_SYMBOL

SymbolDone(n) == n >= SAMPLES_PER_SYMBOL

\* ++idle_count >= IDLE_SYMBOLS
IdleDone_gt(n) == n > IDLE_SYMBOLS

IdleDone(n) == n >= IDLE_SYMBOLS

\* current_symbol = 0; if (symbol_index < MESSAGE_BITS) current_symbol = beacon_frame[symbol_index];
CurrentSymbol_next(si) == IF si + 1 < MESSAGE_BITS THEN FrameAt(si + 1) ELSE 0

\* (the lookup made after the symbol counters have been updated)
CurrentSymbol_post(si) ==
    IF SymbolDone(sample_count + 1) /\ si < MESSAGE_BITS
    THEN CurrentSymbol_next(si)
    ELSE IF si < MESSAGE_BITS THEN FrameAt(si) ELSE 0

CurrentSymbol(si) == IF si < MESSAGE_BITS THEN FrameAt(si) ELSE 0

\* DAC1DATH = (dac_val >> 8) & 0x0F; DAC1DATL = dac_val & 0xFF; debug_dac_value = dac_val;
WriteDac(dac_val) ==
    /\ DAC1DATH' = Shr(dac_val, 8) % 16
    /\ DAC1DATL' = dac_val % 256
    /\ debug_dac_value' = dac_val

\* the interrupt is taken only once Timer1 runs with its interrupt enabled
TickArmed_from_reset == cycles < MaxCycles

TickArmed == T1IE = 1 /\ TON = 1 /\ cycles < MaxCycles

\* preamble_count = 0 on leaving the preamble (n is the count reached)
CounterReset_keep(n) == n

CounterReset(n) == 0

\* tx_phase = PREAMBLE_PHASE once the idle symbols are done
AfterIdlePhase_data == DATA_PHASE

AfterIdlePhase == PREAMBLE_PHASE

\* The two branches of the handler. counted says whether the tick is added to
\* the running totals ticks and cycles, which are no part of the program.
PreambleBranch(counted) ==
    /\ tx_phase = PREAMBLE_PHASE
    /\ WriteDac(precomputed_dac[carrier_phase])
    /\ sel' = <<"carrier", 0, carrier_phase>>
    /\ carrier_phase' = CarrierStep(carrier_phase)
    /\ ticks' = IF counted THEN ticks + 1 ELSE ticks
    /\ IF PreambleDone(preamble_count + 1)
       THEN /\ tx_phase' = DATA_PHASE
            /\ preamble_count' = CounterReset(preamble_count + 1)
            /\ symbol_index' = 0
            /\ sample_count' = 0
            /\ phase_ticks' = 0
            /\ last_preamble_len' = phase_ticks + 1
       ELSE /\ preamble_count' = preamble_count + 1
            /\ phase_ticks' = phase_ticks + 1
            /\ UNCHANGED <<tx_phase, symbol_index, sample_count, last_preamble_len>>
    /\ UNCHANGED <<idle_count, last_data_len, cycles, timerVars, pc, buildVars, bchVars>>

DataBranch(counted) ==
    /\ tx_phase # PREAMBLE_PHASE
    /\ LET current_symbol == CurrentSymbol(symbol_index)
       IN  /\ WriteDac(precomputed_symbol_dac[current_symbol][carrier_phase])
           /\ sel' = <<"symbol", current_symbol, carrier_phase>>
    /\ carrier_phase' = CarrierStep(carrier_phase)
    /\ ticks' = IF counted THEN ticks + 1 ELSE ticks
    /\ IF SymbolDone(sample_count + 1)
       THEN /\ sample_count' = 0
            /\ IF symbol_index < MESSAGE_BITS
               THEN /\ symbol_index' = symbol_index + 1
                    /\ phase_ticks' = phase_ticks + 1
                    /\ UNCHANGED <<idle_count, tx_phase, last_data_len, cycles>>
               ELSE /\ UNCHANGED symbol_index
                    /\ IF IdleDone(idle_count + 1)
                       THEN /\ tx_phase' = AfterIdlePhase
                            /\ idle_count' = 0
                            /\ phase_ticks' = 0
                            /\ last_data_len' = phase_ticks + 1
                            /\ cycles' = IF counted THEN cycles + 1 ELSE cycles
                       ELSE /\ idle_count' = idle_count + 1
                            /\ phase_ticks' = phase_ticks + 1
                            /\ UNCHANGED <<tx_phase, last_data_len, cycles>>
       ELSE /\ sample_count' = sample_count + 1
            /\ phase_ticks' = phase_ticks + 1
            /\ UNCHANGED <<symbol_index, idle_count, tx_phase, last_data_len, cycles>>
    /\ UNCHANGED <<preamble_count, last_preamble_len, timerVars, pc, buildVars, bchVars>>

TickPreamble ==
    /\ TickArmed
    /\ PreambleBranch(TRUE)

TickData ==
    /\ TickArmed
    /\ DataBranch(TRUE)

Next ==
    \/ DisableWatchdog
    \/ build_beacon_frame
    \/ init_clock
    \/ init_dac
    \/ init_timer1
    \/ EnableInterrupts
    \/ IdleLoop
    \/ TickPreamble
    \/ TickData

Spec == Init /\ [][Next]_vars

\* ------------------------------------------- the program running for ever
\* The same steps with no limit on the number of cycles: the ticks are not
\* added to the running totals, so the state space stays finite.
TimerRuns == T1IE = 1 /\ TON = 1

MainStep ==
    \/ DisableWatchdog
    \/ build_beacon_frame
    \/ init_clock
    \/ init_dac
    \/ init_timer1
    \/ EnableInterrupts
    \/ IdleLoop

LiveTickPreamble ==
    /\ TimerRuns
    /\ PreambleBranch(FALSE)

LiveTickData ==
    /\ TimerRuns
    /\ DataBranch(FALSE)

LiveTick == LiveTickPreamble \/ LiveTickData

NextLive ==
    \/ MainStep
    \/ LiveTickPreamble
    \/ LiveTickData

\* The processor keeps executing main, and the running timer keeps raising
\* the interrupt, which is taken at priority 5 over the idle loop.
SpecLive == Init /\ [][NextLive]_vars /\ WF_vars(MainStep) /\ WF_vars(LiveTick)

\* ------------------------------------------- the BCH encoder on its own
\* 21-bit inputs: every pattern 0..MaxPattern shifted to every bit position,
\* the position literal of the frame and the all-ones word.
BchInputs ==
    {(p * Pow2(s)) % Pow2(21) : p \in 0..MaxPattern, s \in 0..20}
        \cup {position, Pow2(21) - 1}

InitBch ==
    /\ InitProgram
    /\ pc = "wdt"
    /\ bch_pc = "call_a"
    /\ bchA \in BchInputs
    /\ bchB \in BchInputs
    /\ bchOut = <<0, 0, 0>>

EncodeA ==
    /\ bch_pc = "call_a"
    /\ bchOut' = [bchOut EXCEPT ![1] = bch_encode_31_21(bchA)]
    /\ bch_pc' = "call_b"
    /\ UNCHANGED <<isrVars, dacVars, timerVars, pc, buildVars, histVars, bchA, bchB>>

EncodeB ==
    /\ bch_pc = "call_b"
    /\ bchOut' = [bchOut EXCEPT ![2] = bch_encode_31_21(bchB)]
    /\ bch_pc' = "call_ab"
    /\ UNCHANGED <<isrVars, dacVars, timerVars, pc, buildVars, histVars, bchA, bchB>>

EncodeAxorB ==
    /\ bch_pc = "call_ab"
    /\ bchOut' = [bchOut EXCEPT ![3] = bch_encode_31_21(Xor(bchA, bchB))]
    /\ bch_pc' = "done"
    /\ UNCHANGED <<isrVars, dacVars, timerVars, pc, buildVars, histVars, bchA, bchB>>

NextBch ==
    \/ EncodeA
    \/ EncodeB
    \/ EncodeAxorB

SpecBch == InitBch /\ [][NextBch]_vars

\* ------------------------------------- the BCH(12,12) encoder on its own
\* every value of its uint16_t parameter
InitId ==
    /\ InitProgram
    /\ pc = "wdt"
    /\ bch_pc = "call_id"
    /\ bchA \in 0..65535
    /\ bchB = 0
    /\ bchOut = <<0, 0, 0>>

EncodeId ==
    /\ bch_pc = "call_id"
    /\ bchOut' = [bchOut EXCEPT ![1] = bch_encode_12_12(bchA) % 65536]
    /\ bch_pc' = "done_id"
    /\ UNCHANGED <<isrVars, dacVars, timerVars, pc, buildVars, histVars, bchA, bchB>>

SpecId == InitId /\ [][EncodeId]_vars

\* ================================================================ claims
TickTaken == ticks' # ticks

\* C1: every tick, in either phase and on every phase transition, moves
\* carrier_phase one step round the cycle 0,1,2,3,4,0 (never reset, never
\* skipped), so after N ticks from 0 it equals N mod 5.
C1_CarrierPhaseAdvances ==
    /\ [](carrier_phase = ticks % 5)
    /\ [][TickTaken => carrier_phase' = (carrier_phase + 1) % 5]_vars

\* a tick of the second preamble, four ticks after the data burst handed over
C1_Witness ==
    /\ ticks = 93504
    /\ tx_phase = PREAMBLE_PHASE
    /\ cycles = 1
    /\ carrier_phase = 4

\* C2: a preamble entered with preamble_count = 0 lasts exactly 32000 ticks,
\* each looking up precomputed_dac[carrier_phase]; the 32000th tick hands over
\* to DATA with preamble_count, symbol_index and sample_count at 0 and
\* carrier_phase at 0 without having been reset.
C2_PreambleLasts32000 ==
    /\ [](tx_phase = PREAMBLE_PHASE =>
            /\ phase_ticks < 32000
            /\ preamble_count = phase_ticks
            /\ (phase_ticks = 0 => carrier_phase = 0))
    /\ [][(TickTaken /\ tx_phase = PREAMBLE_PHASE) =>
            /\ sel' = <<"carrier", 0, carrier_phase>>
            /\ debug_dac_value' = precomputed_dac[carrier_phase]
            /\ carrier_phase' = (carrier_phase + 1) % 5
            /\ IF phase_ticks + 1 < 32000
               THEN tx_phase' = PREAMBLE_PHASE /\ phase_ticks' = phase_ticks + 1
               ELSE /\ tx_phase' = DATA_PHASE
                    /\ preamble_count' = 0
                    /\ symbol_index' = 0
                    /\ sample_count' = 0
                    /\ carrier_phase' = 0
                    /\ last_preamble_len' = 32000]_vars

\* the second preamble (a re-entry from DATA) has just handed over to DATA
C2_Witness ==
    /\ cycles = 1
    /\ tx_phase = DATA_PHASE
    /\ phase_ticks = 0
    /\ last_preamble_len = 32000
    /\ sel = <<"carrier", 0, 4>>
    /\ symbol_index = 0
    /\ sample_count = 0

\* C3: in a data burst the bits go out in order 0..120, none skipped or
\* repeated, each for exactly 500 ticks that look up
\* precomputed_symbol_dac[beacon_frame[k]][carrier_phase]; the tick taken at
\* sample_count = 499 moves to bit k+1 with sample_count = 0 while
\* carrier_phase advances by one.
C3_BitsInOrder500Each ==
    /\ []((tx_phase = DATA_PHASE /\ phase_ticks < 500 * 121) =>
            /\ symbol_index = phase_ticks \div 500
            /\ sample_count = phase_ticks % 500)
    /\ []((tx_phase = DATA_PHASE /\ symbol_index < 121) => phase_ticks < 500 * 121)
    /\ [][(TickTaken /\ tx_phase = DATA_PHASE /\ symbol_index < 121) =>
            /\ sel' = <<"symbol", FrameAt(symbol_index), carrier_phase>>
            /\ debug_dac_value' = precomputed_symbol_dac[FrameAt(symbol_index)][carrier_phase]
            /\ carrier_phase' = (carrier_phase + 1) % 5
            /\ tx_phase' = DATA_PHASE
            /\ IF sample_count = 499
               THEN symbol_index' = symbol_index + 1 /\ sample_count' = 0
               ELSE symbol_index' = symbol_index /\ sample_count' = sample_count + 1]_vars

\* the 500th tick of the last bit of a burst has just been taken
C3_Witness ==
    /\ cycles = 0
    /\ tx_phase = DATA_PHASE
    /\ symbol_index = 121
    /\ sample_count = 0
    /\ phase_ticks = 500 * 121
    /\ sel = <<"symbol", FrameAt(120), 4>>

\* C4: after bit 120 completes, exactly 1000 more ticks are taken in DATA with
\* symbol_index = 121 and the symbol bit taken as 0 (table
\* precomputed_symbol_dac[0]); the 1000th gives PREAMBLE with
\* preamble_count = 0 and idle_count = 0.
C4_IdleGuard1000 ==
    /\ []((tx_phase = DATA_PHASE /\ symbol_index >= 121) =>
            /\ symbol_index = 121
            /\ phase_ticks >= 60500
            /\ phase_ticks < 60500 + 1000
            /\ idle_count = (phase_ticks - 60500) \div 500)
    /\ []((tx_phase = DATA_PHASE /\ phase_ticks >= 60500) => symbol_index = 121)
    /\ [][(TickTaken /\ tx_phase = DATA_PHASE /\ symbol_index = 121) =>
            /\ sel' = <<"symbol", 0, carrier_phase>>
            /\ debug_dac_value' = precomputed_symbol_dac[0][carrier_phase]
            /\ IF phase_ticks + 1 < 60500 + 1000
               THEN /\ tx_phase' = DATA_PHASE
                    /\ symbol_index' = 121
                    /\ phase_ticks' = phase_ticks + 1
               ELSE /\ tx_phase' = PREAMBLE_PHASE
                    /\ preamble_count' = 0
                    /\ idle_count' = 0]_vars

\* the 1000th idle tick of the first burst has just been taken
C4_Witness ==
    /\ tx_phase = PREAMBLE_PHASE
    /\ cycles = 1
    /\ phase_ticks = 0
    /\ preamble_count = 0
    /\ idle_count = 0
    /\ symbol_index = 121
    /\ sel = <<"symbol", 0, 4>>

\* C5: every cycle, not only the first, is exactly 32000 ticks of PREAMBLE
\* followed by exactly 500*121 + 500*2 = 61500 ticks of DATA.
C5_CycleLengths ==
    /\ last_preamble_len \in {0, 32000}
    /\ last_data_len \in {0, 61500}
    /\ (last_preamble_len = 0) = (ticks < 32000)
    /\ (last_data_len = 0) = (cycles = 0)
    /\ ticks = cycles * (32000 + 61500)
                + (IF tx_phase = PREAMBLE_PHASE THEN 0 ELSE 32000) + phase_ticks
    /\ phase_ticks < (IF tx_phase = PREAMBLE_PHASE THEN 32000 ELSE 61500)

\* the second cycle has just completed
C5_Witness ==
    /\ cycles = 2
    /\ ticks = 2 * 93500
    /\ last_preamble_len = 32000
    /\ last_data_len = 61500
    /\ tx_phase = PREAMBLE_PHASE

\* C6: every entry of precomputed_dac and precomputed_symbol_dac lies in
\* 0..4095, hence so does the DAC code dac_val the tick handler looks up
\* (debug_dac_value holds dac_val).
C6_DacCodesWithin12Bits ==
    /\ \A k \in 0..4 : precomputed_dac[k] \in 0..4095
    /\ \A s \in 0..1 : \A k \in 0..4 : precomputed_symbol_dac[s][k] \in 0..4095
    /\ debug_dac_value \in 0..4095

\* C7: after every completed tick debug_dac_value equals the 12-bit code held
\* in the DAC data registers, ((DAC1DATH & 0x0F) << 8) | DAC1DATL.
C7_DebugEqualsDacRegisters ==
    ticks >= 1 => debug_dac_value = ((DAC1DATH % 16) * 256) + DAC1DATL

BuildDone == pc \in {"init_clock", "init_dac", "init_timer1", "enable_interrupts", "idle"}

\* C8: build_beacon_frame stores exactly 121 elements, indices 0..120 once each
\* in ascending order and no other index; bit_index is 121 when it returns and
\* every element stored is 0 or 1.
C8_FrameWrites121 ==
    /\ [](nwrites = bit_index /\ bit_index <= 121 /\ last_index = bit_index - 1)
    /\ [](BuildDone => (bit_index = 121 /\ nwrites = 121 /\ Len(beacon_frame) = 121))
    /\ [](\A k \in 1..bit_index : beacon_frame[k] \in {0, 1})
    /\ [][nwrites' # nwrites =>
            /\ nwrites' = nwrites + 1
            /\ last_index' = nwrites
            /\ last_index' \in 0..120
            /\ \A k \in 1..121 : k # last_index' + 1 => beacon_frame'[k] = beacon_frame[k]]_vars

\* build_beacon_frame has just returned
C8_Witness ==
    /\ pc = "init_clock"
    /\ bit_index = 121
    /\ nwrites = 121
    /\ last_index = 120

\* v as w bits, most significant first
MsbFirst(v, w) == [k \in 1..w |-> (v \div (2 ^ (w - k))) % 2]

\* the layout C9 states: 15 ones, 0x1AC (9 bits), country 0x2A5 (10), aircraft
\* id 0x00A5F3C (24), position 0x1A5F3 (21), offset 0x0A5F3 (20), the 10-bit
\* bch_encode_31_21(0x1A5F3), and 0xF3C (12), each MSB first.
C9_ExpectedFrame ==
    [k \in 1..15 |-> 1]
        \o MsbFirst(428, 9)
        \o MsbFirst(677, 10)
        \o MsbFirst(679740, 24)
        \o MsbFirst(108019, 21)
        \o MsbFirst(42483, 20)
        \o MsbFirst(bch_encode_31_21(108019), 10)
        \o MsbFirst(3900, 12)

\* C9: after build_beacon_frame the frame is the MSB-first concatenation of
\* the segments in order: bits 0..14 all 1, 15..23 = 0x1AC, 24..33 = 0x2A5,
\* 34..57 = 0x00A5F3C, 58..78 = 0x1A5F3, 79..98 = 0x0A5F3,
\* 99..108 = bch_encode_31_21(0x1A5F3), 109..120 = 0xF3C.
\* (the frame is compared when build_beacon_frame returns, and no later step
\* changes it)
C9_FrameLayout ==
    /\ [](pc = "init_clock" => beacon_frame = C9_ExpectedFrame)
    /\ [][BuildDone => (BuildDone' /\ beacon_frame' = beacon_frame)]_vars

\* the frame is complete: bits 109..120 read 111100111100 and bits 15..23 110101100
C9_Witness ==
    /\ BuildDone
    /\ SubSeq(beacon_frame, 110, 121) = <<1, 1, 1, 1, 0, 0, 1, 1, 1, 1, 0, 0>>
    /\ SubSeq(beacon_frame, 16, 24) = <<1, 1, 0, 1, 0, 1, 1, 0, 0>>
    /\ position_parity = 335
    /\ pc = "init_dac"

\* C10: bch_encode_31_21 is linear over GF(2): the parity of A XOR B is the
\* XOR of the parities of A and B, and the parity of 0 is 0.
C10_BchLinear ==
    /\ (bch_pc = "done" => bchOut[3] = Xor(bchOut[1], bchOut[2]))
    /\ ((bch_pc # "call_a" /\ bchA = 0) => bchOut[1] = 0)

\* three encodings done on inputs with distinct non-zero parities
C10_Witness ==
    /\ bch_pc = "done"
    /\ bchA = position
    /\ bchB = Pow2(21) - 1
    /\ bchOut[1] = 335
    /\ bchOut[2] # 0
    /\ bchOut[3] # 0

\* the timer interrupt has been armed by init_timer1
TimerArmed == T1IE = 1 \/ TON = 1

\* C11: build_beacon_frame has stored all 121 elements before init_timer1 arms
\* the timer interrupt, hence before the first tick reads the frame; once armed,
\* no foreground step writes beacon_frame or a state-machine variable, and the
\* tick handler never writes beacon_frame. (The DAC tables are const data: no
\* step of either context writes them.)
C11_FrameBuiltBeforeArming ==
    /\ []((TimerArmed \/ ticks > 0) => (BuildDone /\ nwrites = 121 /\ bit_index = 121))
    /\ [][TimerArmed' => (BuildDone /\ nwrites = 121)]_vars
    /\ [][(TimerArmed /\ ~TickTaken) => UNCHANGED <<beacon_frame, isrVars>>]_vars
    /\ [][TickTaken => (beacon_frame' = beacon_frame /\ nwrites' = nwrites)]_vars

\* the first tick has been taken while main sits in its idle loop
C11_Witness ==
    /\ pc = "idle"
    /\ ticks = 1
    /\ TimerArmed
    /\ nwrites = 121

\* C12: with the tick taken fairly, transmission never stops: tx_phase is
\* PREAMBLE again and again and DATA again and again, so the handler stays in no
\* phase for ever, and in every cycle symbol_index takes every value 0..121: it
\* is 0 and it is 121 in DATA again and again, and it only ever changes by going
\* up by one in DATA or back to 0 on the step from PREAMBLE to DATA.
C12_TransmissionNeverStops ==
    /\ []<>(tx_phase = PREAMBLE_PHASE)
    /\ []<>(tx_phase = DATA_PHASE)
    /\ []<>(tx_phase = DATA_PHASE /\ symbol_index = 0)
    /\ []<>(tx_phase = DATA_PHASE /\ symbol_index = 121)
    /\ [][symbol_index' # symbol_index =>
            \/ (tx_phase = DATA_PHASE /\ tx_phase' = DATA_PHASE /\ symbol_index' = symbol_index + 1)
            \/ (tx_phase = PREAMBLE_PHASE /\ tx_phase' = DATA_PHASE /\ symbol_index' = 0)]_vars

\* a later cycle: the preamble runs again after a complete data burst
C12_Witness ==
    /\ tx_phase = PREAMBLE_PHASE
    /\ last_data_len = 61500
    /\ symbol_index = 121
    /\ preamble_count = 31999

\* the table entry that the values held before a tick select
C13_PreTickSample ==
    IF tx_phase = PREAMBLE_PHASE
    THEN precomputed_dac[carrier_phase]
    ELSE precomputed_symbol_dac[IF symbol_index < 121 THEN FrameAt(symbol_index) ELSE 0][carrier_phase]

\* C13: the sample written on a tick is the one selected by the values of
\* tx_phase, symbol_index and carrier_phase before the tick, since lookup and
\* DAC write come before the counter updates and the transition: the tick that
\* completes the preamble still writes a carrier-table sample, and the 500th
\* tick of symbol k writes the sample of bit k, not of bit k+1.
C13_SampleFromPreTickState ==
    /\ [][TickTaken =>
            /\ debug_dac_value' = C13_PreTickSample
            /\ DAC1DATH' = (C13_PreTickSample \div 256) % 16
            /\ DAC1DATL' = C13_PreTickSample % 256
            /\ sel'[3] = carrier_phase]_vars
    /\ [][(TickTaken /\ tx_phase = PREAMBLE_PHASE /\ tx_phase' = DATA_PHASE) =>
            sel' = <<"carrier", 0, carrier_phase>>]_vars
    /\ [][(TickTaken /\ tx_phase = DATA_PHASE /\ symbol_index < 121 /\ sample_count = 499) =>
            /\ symbol_index' = symbol_index + 1
            /\ sel' = <<"symbol", FrameAt(symbol_index), carrier_phase>>]_vars

\* the 500th tick of bit 16 (a 1) has been taken and bit 17 (a 0) is next
C13_Witness ==
    /\ tx_phase = DATA_PHASE
    /\ symbol_index = 17
    /\ sample_count = 0
    /\ FrameAt(16) = 1
    /\ FrameAt(17) = 0
    /\ sel = <<"symbol", 1, 4>>
    /\ debug_dac_value = precomputed_symbol_dac[1][4]
    /\ cycles = 0

\* C14: at every tick boundary carrier_phase is in 0..4, symbol_index in
\* 0..121, sample_count in 0..499, preamble_count in 0..32000 and idle_count in
\* 0..2: no counter exceeds its period.
C14_CountersInRange ==
    /\ carrier_phase \in 0..4
    /\ symbol_index \in 0..121
    /\ sample_count \in 0..499
    /\ preamble_count \in 0..32000
    /\ idle_count \in 0..2

\* the last tick but one of a burst: every data counter at its largest value
C14_Witness ==
    /\ tx_phase = DATA_PHASE
    /\ symbol_index = 121
    /\ sample_count = 499
    /\ idle_count = 1
    /\ carrier_phase = 4
    /\ cycles = 0

RECURSIVE C15_PolyMod(_, _)
\* v(x) reduced modulo g(x) = x^10 + x^9 + x^8 + x^7 + x^5 + x^4 + x + 1 (1024 +
\* BCH_POLY), clearing the terms x^k down to x^10
C15_PolyMod(v, k) ==
    IF k < 10 THEN v
    ELSE C15_PolyMod(IF BitAt(v, k) = 1 THEN Xor(v, (1024 + 947) * Pow2(k - 10)) ELSE v, k - 1)

\* C15: for every 21-bit P, bch_encode_31_21(P) is the remainder of P(x)*x^10
\* divided by g(x), so that the 31-bit word (P << 10) | parity is a multiple of
\* g(x).
C15_BchIsPolynomialRemainder ==
    bch_pc # "call_a" =>
        /\ bchOut[1] = C15_PolyMod(bchA * 1024, 30)
        /\ C15_PolyMod((bchA * 1024) + bchOut[1], 30) = 0

\* C16: bch_encode_12_12 is the identity over the low 12 bits of its input,
\* the 12-bit bound being enforced by masking in the encoder: for every 16-bit
\* x the result is x & 0xFFF, hence in 0..4095.
C16_IdParityMasked ==
    bch_pc = "done_id" =>
        /\ bchOut[1] = bchA % 4096
        /\ bchOut[1] \in 0..4095

\* C16 as amended: for every 16-bit x the result is x itself, with no masking
\* in the encoder; it equals x & 0xFFF, and lies in 0..4095, exactly when x is
\* at most 4095.
C16_IdParityIdentity ==
    bch_pc = "done_id" =>
        /\ bchOut[1] = bchA
        /\ (bchOut[1] = bchA % 4096) = (bchA <= 4095)
        /\ (bchOut[1] \in 0..4095) = (bchA <= 4095)

\* the encoder has returned bit 12 of its input unmasked
C16_Witness ==
    /\ bch_pc = "done_id"
    /\ bchA = 4096 + 3900
    /\ bchOut[1] = 4096 + 3900

\* C17: every array access of the tick handler is in bounds in every reachable
\* state: beacon_frame is read only at symbol_index < 121, the first index of
\* precomputed_symbol_dac is 0 or 1 because every frame element is 0 or 1, and
\* carrier_phase, the index into both tables, is always in 0..4.
C17_ArrayAccessesInBounds ==
    /\ [](/\ carrier_phase \in 0..4
          /\ carrier_phase \in DOMAIN precomputed_dac
          /\ symbol_index \in 0..MESSAGE_BITS
          /\ Len(beacon_frame) = MESSAGE_BITS
          /\ \A k \in 0..(MESSAGE_BITS - 1) : FrameAt(k) \in {0, 1}
          /\ CurrentSymbol(symbol_index) \in DOMAIN precomputed_symbol_dac
          /\ carrier_phase \in DOMAIN precomputed_symbol_dac[CurrentSymbol(symbol_index)])
    /\ [][TickTaken =>
            /\ sel'[3] = carrier_phase
            /\ sel'[3] \in 0..4
            /\ sel'[2] \in {0, 1}
            /\ ((sel'[1] = "symbol" /\ sel'[2] = 1) =>
                   (symbol_index < MESSAGE_BITS /\ FrameAt(symbol_index) = 1))
            /\ ((sel'[1] = "symbol" /\ symbol_index >= MESSAGE_BITS) => sel'[2] = 0)]_vars

\* the last frame bit has just been read at the last carrier index
C17_Witness ==
    /\ tx_phase = DATA_PHASE
    /\ symbol_index = MESSAGE_BITS - 1
    /\ sample_count = 100
    /\ carrier_phase = 0
    /\ sel = <<"symbol", FrameAt(MESSAGE_BITS - 1), 4>>
    /\ cycles = 0

\* C18: at every tick boundary carrier_phase equals preamble_count mod 5 while
\* tx_phase is PREAMBLE and sample_count mod 5 while tx_phase is DATA; hence
\* every preamble, data symbol and idle symbol begins at carrier_phase 0.
C18_CarrierAligned ==
    /\ (tx_phase = PREAMBLE_PHASE => carrier_phase = preamble_count % 5)
    /\ (tx_phase = DATA_PHASE => carrier_phase = sample_count % 5)
    /\ ((tx_phase = PREAMBLE_PHASE /\ preamble_count = 0) => carrier_phase = 0)
    /\ ((tx_phase = DATA_PHASE /\ sample_count = 0) => carrier_phase = 0)
    /\ (phase_ticks = 0 => carrier_phase = 0)

\* the second idle symbol begins
C18_Witness ==
    /\ tx_phase = DATA_PHASE
    /\ symbol_index = MESSAGE_BITS
    /\ idle_count = 1
    /\ sample_count = 0
    /\ carrier_phase = 0
    /\ sel[3] = 4
    /\ cycles = 0

\* the cycle position r in 0..93499 of a tick boundary determines the counters
C19_TupleAt(r) ==
    IF r < PREAMBLE_SAMPLES
    THEN <<PREAMBLE_PHASE, r % 5, r, 0, 0>>
    ELSE LET d == r - PREAMBLE_SAMPLES
         IN  <<DATA_PHASE, r % 5, 0, d % SAMPLES_PER_SYMBOL,
               IF d >= (MESSAGE_BITS + 1) * SAMPLES_PER_SYMBOL THEN 1 ELSE 0>>

\* the table entry selected by the tick taken at cycle position r
C19_SelAt(r) ==
    IF r < PREAMBLE_SAMPLES
    THEN <<"carrier", 0, r % 5>>
    ELSE LET d == r - PREAMBLE_SAMPLES
         IN  <<"symbol",
               IF d < MESSAGE_BITS * SAMPLES_PER_SYMBOL
               THEN FrameAt(d \div SAMPLES_PER_SYMBOL) ELSE 0,
               r % 5>>

\* C19: the emitted sample sequence has period 93500 ticks: the table entry
\* selected on tick n and the tuple (tx_phase, carrier_phase, preamble_count,
\* sample_count, idle_count) at tick boundary n depend on n mod 93500 only, so
\* they are the same at n + 93500 as at n.
C19_Period93500 ==
    /\ <<tx_phase, carrier_phase, preamble_count, sample_count, idle_count>>
           = C19_TupleAt(ticks % 93500)
    /\ (ticks >= 1 => sel = C19_SelAt((ticks - 1) % 93500))

\* in the second cycle, bit 20 (a 1 after a 0) has just been sent again
C19_Witness ==
    /\ cycles = 1
    /\ ticks = 93500 + 32000 + (500 * 20) + 1
    /\ tx_phase = DATA_PHASE
    /\ symbol_index = 20
    /\ sample_count = 1
    /\ sel = <<"symbol", 1, 0>>
    /\ FrameAt(19) = 0

\* C20: the counters of the inactive phase are zero at every tick boundary:
\* preamble_count is 0 whenever tx_phase is DATA, sample_count and idle_count
\* are 0 whenever tx_phase is PREAMBLE, and idle_count is nonzero only while
\* tx_phase is DATA with symbol_index = 121.
C20_InactiveCountersZero ==
    /\ (tx_phase = DATA_PHASE => preamble_count = 0)
    /\ (tx_phase = PREAMBLE_PHASE => (sample_count = 0 /\ idle_count = 0))
    /\ (idle_count # 0 => (tx_phase = DATA_PHASE /\ symbol_index = MESSAGE_BITS))

\* the second idle symbol is under way after a full preamble
C20_Witness ==
    /\ tx_phase = DATA_PHASE
    /\ idle_count = 1
    /\ symbol_index = MESSAGE_BITS
    /\ sample_count = 250
    /\ preamble_count = 0
    /\ last_preamble_len = 32000
    /\ cycles = 0

====
